---- MODULE Spec2Model ----
(***************************************************************************)
(* The MongoDB policy adapter of src/src/adapter.ts as a state machine.    *)
(*                                                                         *)
(* The collection is a set of documents.  An adapter call is split where   *)
(* the code awaits the store: the synchronous part of the handler builds   *)
(* the query and the documents (taking its timestamps), and the store      *)
(* applies each request in a later step, which may also fail.              *)
(***************************************************************************)
EXTENDS Integers, Sequences, FiniteSets, Bags, TLC

VARIABLES
    docs,       \* the documents of the collection
    exists,     \* whether the collection exists in the database
    indexes,    \* the names of the secondary indexes of the collection
    now,        \* the clock read by new Date()
    nextId,     \* the next _id the store hands out
    calls,      \* per caller, its adapter call in progress (awaiting the store)
    detached,   \* deleteOne requests still in flight after their call returned
    client,     \* the adapter's MongoClient: none, created, connected or closed
    log         \* the messages the adapter's logger has written

vars == <<docs, exists, indexes, now, nextId, calls, detached, client, log>>

-----------------------------------------------------------------------------
(* Bounds of the model *)

MaxTime == 1        \* the clock runs 0..MaxTime
MaxId == 2          \* at most MaxId documents are ever inserted in one run
MaxRuleLen == 7     \* rules given to the adapter have 0..MaxRuleLen fields
MaxBatch == 2       \* rules per addPolicies / removePolicies / model

(* Program constant: a document has the positional fields v0..v5 *)
NumFields == 6

PTypes == {"p", "g"}

\* The callers of the adapter.  Each makes its calls one after the other;
\* calls of different callers overlap.
Callers == {"c1", "c2"}

\* The rule a,b,a,b,... of n fields.
Alt(n) == [i \in 1..n |-> IF i % 2 = 1 THEN "a" ELSE "b"]

\* The rules callers pass: prefixes of a,b,a,b,a,b,a,... (so that one rule is
\* a strict prefix of another) of no field, of a few, of as many as a document
\* holds and of more; and a rule sharing no field with them.
Rules ==
    {Alt(n) : n \in {0, 1, 2, NumFields, MaxRuleLen}} \cup {<<"b">>}

\* The rules given in lists (addPolicies, removePolicies, the model saved).
BatchRules == {<<"a">>, <<"a", "b">>, <<"b">>}

RECURSIVE SeqsUpTo(_, _)
\* The sequences over S of at most n elements.
SeqsUpTo(S, n) ==
    IF n = 0 THEN {<<>>}
    ELSE LET shorter == SeqsUpTo(S, n - 1)
         IN  shorter \cup {Append(s, x) : s \in {t \in shorter : Len(t) = n - 1}, x \in S}

Batches == SeqsUpTo(BatchRules, MaxBatch)

\* The adapters open on the collection: this.useFilter and
\* this.dropCollectionOnManualSave are fixed at construction.
Adapters == [useFilter : BOOLEAN, dropCollectionOnManualSave : BOOLEAN]

\* The clock readings of n consecutive new Date() calls of one synchronous
\* loop that starts at time t: the clock may advance between two of them.
Stamps(t, n) ==
    {ts \in [1..n -> t..MaxTime] : \A i \in 1..n : i > 1 => ts[i - 1] <= ts[i]}

Min(x, y) == IF x <= y THEN x ELSE y

-----------------------------------------------------------------------------
(* Document construction *)

\* A bug a mutant introduces: every timestamp option other than 'none' stamps
\* createdAt too.
convertRuleToDocument_stampsBoth(ptype, rule, timestampOption, t) ==
    LET line == [ptype |-> ptype,
                 v |-> [i \in 0..(Min(Len(rule), NumFields) - 1) |-> rule[i + 1]]]
    IN  IF timestampOption = "none" THEN line
        ELSE [ptype |-> line.ptype, v |-> line.v,
              createdAt |-> t, updatedAt |-> t]

\* A bug a mutant introduces: 'both' reads the clock once per field, the
\* clock advancing in between.
convertRuleToDocument_twoReads(ptype, rule, timestampOption, t) ==
    LET line == [ptype |-> ptype,
                 v |-> [i \in 0..(Min(Len(rule), NumFields) - 1) |-> rule[i + 1]]]
    IN  IF timestampOption = "none" THEN line
        ELSE IF timestampOption = "updatedOnly"
             THEN [ptype |-> line.ptype, v |-> line.v, updatedAt |-> t]
             ELSE [ptype |-> line.ptype, v |-> line.v,
                   createdAt |-> t, updatedAt |-> t + 1]

\* convertRuleToDocument: ptype plus v0..v(n-1) for the first n <= 6 fields of
\* the rule; t is the value of new Date().  v is the function from the indexes
\* of the fields the object has to their values.
convertRuleToDocument(ptype, rule, timestampOption, t) ==
    LET line == [ptype |-> ptype,
                 v |-> [i \in 0..(Min(Len(rule), NumFields) - 1) |-> rule[i + 1]]]
    IN  IF timestampOption = "none" THEN line
        ELSE IF timestampOption = "updatedOnly"
             THEN [ptype |-> line.ptype, v |-> line.v, updatedAt |-> t]
             ELSE [ptype |-> line.ptype, v |-> line.v,
                   createdAt |-> t, updatedAt |-> t]

savePolicyLine(ptype, rule, t) == convertRuleToDocument(ptype, rule, "both", t)

deletePolicyLine(ptype, rule) == convertRuleToDocument(ptype, rule, "none", 0)

updatePolicyLine(ptype, rule, t) ==
    convertRuleToDocument(ptype, rule, "updatedOnly", t)

-----------------------------------------------------------------------------
(* The store *)

\* A bug a mutant introduces: the ptype of the query is not compared.
Matches_anyPtype(d, q) ==
    "v" \in DOMAIN q =>
        \A i \in DOMAIN q.v : i \in DOMAIN d.v /\ d.v[i] = q.v[i]

\* A query document matches a stored document when every field the query
\* names is a field of the document with the same value; fields the query
\* does not name are not constrained.
Matches(d, q) ==
    /\ "ptype" \in DOMAIN q => d.ptype = q.ptype
    /\ "v" \in DOMAIN q =>
          \A i \in DOMAIN q.v : i \in DOMAIN d.v /\ d.v[i] = q.v[i]

MatchingIn(S, q) == {d \in S : Matches(d, q)}

\* The documents of the collection that q matches.
Matching(q) == MatchingIn(docs, q)

\* The document the store makes of an inserted line.
Stored(line, id) ==
    [id |-> id, ptype |-> line.ptype, v |-> line.v,
     createdAt |-> line.createdAt, updatedAt |-> line.updatedAt]

\* $set of the fields of line, then $unset of the positional fields in unset.
ApplyUpdate(d, line, unset) ==
    LET keep == (DOMAIN d.v \cup DOMAIN line.v) \ unset
    IN  [id |-> d.id,
         ptype |-> line.ptype,
         v |-> [i \in keep |-> IF i \in DOMAIN line.v THEN line.v[i] ELSE d.v[i]],
         createdAt |-> IF "createdAt" \in DOMAIN line THEN line.createdAt
                       ELSE d.createdAt,
         updatedAt |-> IF "updatedAt" \in DOMAIN line THEN line.updatedAt
                       ELSE d.updatedAt]

\* The outcomes of deleteOne(q): the store deletes one matching document,
\* whichever it finds first, or nothing when none matches.
DeleteOne(q) ==
    IF Matching(q) = {} THEN {docs} ELSE {docs \ {d} : d \in Matching(q)}

\* A bug a mutant introduces: the update is an upsert.
UpdateOne_upserts(q, line, unset) ==
    IF Matching(q) = {}
    THEN {docs \cup {[id |-> nextId, ptype |-> line.ptype, v |-> line.v,
                      createdAt |-> line.updatedAt,
                      updatedAt |-> line.updatedAt]}}
    ELSE {(docs \ {d}) \cup {ApplyUpdate(d, line, unset)} : d \in Matching(q)}

\* The outcomes of updateOne(q, {$set: line, $unset: unset}): one matching
\* document, whichever the store finds first, is updated in place; nothing is
\* changed (and nothing inserted) when none matches.
UpdateOne(q, line, unset) ==
    IF Matching(q) = {} THEN {docs}
    ELSE {(docs \ {d}) \cup {ApplyUpdate(d, line, unset)} : d \in Matching(q)}

\* The documents of S in the order find() returns them (insertion order).
InOrder(S) ==
    [i \in 1..Cardinality(S) |->
        CHOOSE d \in S : Cardinality({e \in S : e.id < d.id}) = i - 1]

-----------------------------------------------------------------------------
(* Lines for the loading hook *)

RECURSIVE Join(_, _)
\* Array.prototype.join
Join(s, sep) ==
    IF Len(s) = 0 THEN ""
    ELSE IF Len(s) = 1 THEN s[1]
    ELSE s[1] \o sep \o Join(Tail(s), sep)

RECURSIVE Truthy(_)
\* [v0, ..., v5].filter((n) => n) of a sequence of values and "undefined"s:
\* undefined and the empty string are dropped.
Truthy(s) ==
    IF Len(s) = 0 THEN <<>>
    ELSE IF s[1] \in {"undefined", ""} THEN Truthy(Tail(s))
    ELSE <<s[1]>> \o Truthy(Tail(s))

\* The text loadPolicyLine hands to Helper.loadPolicyLine.
loadPolicyLine(line) ==
    line.ptype \o ", " \o
    Join(Truthy([i \in 1..NumFields |->
                    IF (i - 1) \in DOMAIN line.v THEN line.v[i - 1]
                    ELSE "undefined"]), ", ")

-----------------------------------------------------------------------------
(* The rules of a model *)

RECURSIVE FlatRules(_)
\* The <<ptype, rule>> pairs of the entries of one section, in order.
FlatRules(entries) ==
    IF Len(entries) = 0 THEN <<>>
    ELSE [i \in 1..Len(entries[1].policy) |->
             <<entries[1].ptype, entries[1].policy[i]>>]
         \o FlatRules(Tail(entries))

\* extractPolicyRules without its timestamps: the rules of section key.
extractPolicyRules(model, key) ==
    IF key \notin DOMAIN model THEN <<>> ELSE FlatRules(model[key])

\* A bug a mutant introduces: the grouping rules come first.
getAllPolicyRules_groupingFirst(model) ==
    extractPolicyRules(model, "g") \o extractPolicyRules(model, "p")

\* getAllPolicyRules: the policy rules, then the grouping rules.
getAllPolicyRules(model) ==
    extractPolicyRules(model, "p") \o extractPolicyRules(model, "g")

\* The rule lists of the sections of a model.
ModelLists == SeqsUpTo({<<"a">>, <<"a", "b">>}, MaxBatch)

\* The rule lists of the grouping section of a model.
GroupingLists == SeqsUpTo({<<"a">>}, MaxBatch)

\* The models handed to savePolicy: a policy section "p", and with or without
\* a grouping section "g", of at most MaxBatch rules together.
Models ==
    {[p |-> <<[ptype |-> "p", policy |-> ps]>>] : ps \in ModelLists}
    \cup {[p |-> <<[ptype |-> "p", policy |-> l[1]]>>,
           g |-> <<[ptype |-> "g", policy |-> l[2]]>>] :
             l \in {m \in ModelLists \X GroupingLists :
                       Len(m[1]) + Len(m[2]) <= MaxBatch}}

-----------------------------------------------------------------------------
(* Errors *)

\* The one collection of the model.
CollectionName == "policies"

\* An error has no cause.
NoCause == [kind |-> "none"]

\* The error with which the store (the driver) rejects a request.
StoreError == [kind |-> "MongoError", message |-> "store failure", cause |-> NoCause]

\* new MongoAdapterError(message, cause)
MongoAdapterError(message, cause) ==
    [kind |-> "MongoAdapterError", message |-> message, cause |-> cause]

\* wrapError: the adapter's error, whose message is the context, ": " and the
\* message of the error, and whose cause is the error.
wrapError(error, context) ==
    MongoAdapterError(context \o ": " \o error.message, error)

-----------------------------------------------------------------------------
Idle == [op |-> "none", pc |-> "idle"]

Done(c, res) == [calls EXCEPT ![c].pc = "done", ![c].res = res]

\* The call of c rejects with err.
Failed(c, err) ==
    [calls EXCEPT ![c] = [calls[c] EXCEPT !.pc = "done", !.res = "error"] @@
                         [err |-> err]]

\* The call resumes with the store's reply, whose deletedCount or
\* modifiedCount is n.
Replied(c, n) == [calls EXCEPT ![c].pc = "done", ![c].res = "ok", ![c].n = n]

\* No caller is about to resume: a resumption takes no time, so nothing else
\* happens before it.
NoneDone == \A c \in Callers : calls[c].pc # "done"

\* A caller makes its calls one after the other.
CanStart(c) == calls[c].pc = "idle" /\ NoneDone

\* The call of c awaits the request pc, which the store now answers.
Awaits(c, pc) == calls[c].pc = pc /\ NoneDone

\* The indexes createIndexes ensures, in the order it creates them: the
\* compound index over ptype, v0..v5, and the indexes createdAt_1 and
\* updatedAt_1 the store names after their keys.
IndexNames ==
    <<"ptype_v0_v1_v2_v3_v4_v5_compound_index", "createdAt_1", "updatedAt_1">>

ThreeIndexes == {IndexNames[i] : i \in DOMAIN IndexNames}

\* An adapter has been opened on an empty collection: the client is
\* connected, the collection and its indexes exist.
Init ==
    /\ docs = {}
    /\ exists = TRUE
    /\ indexes = ThreeIndexes
    /\ now = 0
    /\ nextId = 1
    /\ calls = [c \in Callers |-> Idle]
    /\ detached = EmptyBag
    /\ client = "connected"
    /\ log = {}

\* No adapter has been made yet, and the database has no such collection.
InitFresh ==
    /\ docs = {}
    /\ exists = FALSE
    /\ indexes = {}
    /\ now = 0
    /\ nextId = 1
    /\ calls = [c \in Callers |-> Idle]
    /\ detached = EmptyBag
    /\ client = "none"
    /\ log = {}

\* Time passes.
Tick ==
    /\ now < MaxTime
    /\ NoneDone
    /\ now' = now + 1
    /\ UNCHANGED <<docs, exists, indexes, nextId, calls, detached, client, log>>

\* The caller's await resumes with the result.
Return(c) ==
    /\ calls[c].pc = "done"
    /\ calls' = [calls EXCEPT ![c] = Idle]
    /\ UNCHANGED <<docs, exists, indexes, now, nextId, detached, client, log>>

\* What the caller gets when the store rejects the request that call cl
\* awaits: loadFilteredPolicy and clearCollection catch and wrap the error,
\* the other operations let it through.
Thrown(cl) ==
    IF cl.pc = "find" THEN wrapError(StoreError, "Failed to load filtered policy")
    ELSE IF cl.pc = "clear"
         THEN wrapError(StoreError,
                        "Failed to clear collection '" \o CollectionName \o "'")
         ELSE StoreError

\* A call with a single request whose request the store fails: nothing is
\* changed.
StoreFail(c) ==
    /\ calls[c].pc \in {"insertOne", "deleteOne", "updateOne", "deleteMany",
                        "clear", "find"}
    /\ NoneDone
    /\ calls' = Failed(c, Thrown(calls[c]))
    /\ UNCHANGED <<docs, exists, indexes, now, nextId, detached, client, log>>

\* The store inserts a document (creating the collection when it does not
\* exist).
Insert(line) ==
    /\ docs' = docs \cup {Stored(line, nextId)}
    /\ nextId' = nextId + 1
    /\ exists' = TRUE
    /\ indexes' = IF exists THEN indexes ELSE {}

\* addPolicy, up to its await.
AddPolicy(c, ptype, rule) ==
    /\ CanStart(c)
    /\ nextId <= MaxId
    /\ calls' = [calls EXCEPT ![c] =
                  [op |-> "addPolicy", pc |-> "insertOne", res |-> "none",
                   at |-> now, ptype |-> ptype, rule |-> rule,
                   line |-> savePolicyLine(ptype, rule, now)]]
    /\ UNCHANGED <<docs, exists, indexes, now, nextId, detached, client, log>>

InsertOneDone(c) ==
    /\ Awaits(c, "insertOne")
    /\ nextId <= MaxId
    /\ Insert(calls[c].line)
    /\ calls' = Done(c, "ok")
    /\ UNCHANGED <<now, detached, client, log>>

\* removePolicy, up to its await.
RemovePolicy(c, ptype, rule) ==
    /\ CanStart(c)
    /\ calls' = [calls EXCEPT ![c] =
                  [op |-> "removePolicy", pc |-> "deleteOne", res |-> "none",
                   n |-> 0, ptype |-> ptype, rule |-> rule,
                   q |-> deletePolicyLine(ptype, rule)]]
    /\ UNCHANGED <<docs, exists, indexes, now, nextId, detached, client, log>>

DeleteOneDone(c) ==
    /\ Awaits(c, "deleteOne")
    /\ docs' \in DeleteOne(calls[c].q)
    /\ calls' = Replied(c, Cardinality(docs \ docs'))
    /\ UNCHANGED <<exists, indexes, now, nextId, detached, client, log>>

\* A bug a mutant introduces: updatePolicy unsets nothing.
UnsetKeys_none(oldLine, newLine) == {}

\* The fields updatePolicy unsets: the keys of oldLine that newLine lacks.
\* Both lines have ptype, and oldLine has neither createdAt nor updatedAt.
UnsetKeys(oldLine, newLine) == DOMAIN oldLine.v \ DOMAIN newLine.v

\* updatePolicy, up to its await.
UpdatePolicy(c, ptype, oldRule, newRule) ==
    /\ CanStart(c)
    /\ LET oldLine == deletePolicyLine(ptype, oldRule)
           newLine == updatePolicyLine(ptype, newRule, now)
       IN  calls' = [calls EXCEPT ![c] =
                  [op |-> "updatePolicy", pc |-> "updateOne", res |-> "none",
                   at |-> now, n |-> 0, ptype |-> ptype, oldRule |-> oldRule, newRule |-> newRule,
                   q |-> oldLine, line |-> newLine,
                   unset |-> UnsetKeys(oldLine, newLine)]]
    /\ UNCHANGED <<docs, exists, indexes, now, nextId, detached, client, log>>

UpdateOneDone(c) ==
    /\ Awaits(c, "updateOne")
    /\ docs' \in UpdateOne(calls[c].q, calls[c].line, calls[c].unset)
    /\ calls' = Replied(c, Cardinality(docs \ docs'))
    /\ UNCHANGED <<exists, indexes, now, nextId, detached, client, log>>

\* A bug a mutant introduces: the values are matched from v0 on, whatever
\* the offset.
FilteredLine_noOffset(ptype, fieldIndex, fieldValues) ==
    [ptype |-> ptype,
     v |-> [i \in {j \in 0..(NumFields - 1) : j < Len(fieldValues)} |->
              fieldValues[i + 1]]]

\* The partial-match document of removeFilteredPolicy.
FilteredLine(ptype, fieldIndex, fieldValues) ==
    [ptype |-> ptype,
     v |-> [i \in {j \in 0..(NumFields - 1) :
                     fieldIndex <= j /\ j < fieldIndex + Len(fieldValues)} |->
              fieldValues[i - fieldIndex + 1]]]

\* removeFilteredPolicy, up to its await.
RemoveFilteredPolicy(c, ptype, fieldIndex, fieldValues) ==
    /\ CanStart(c)
    /\ calls' = [calls EXCEPT ![c] =
                  [op |-> "removeFilteredPolicy", pc |-> "deleteMany",
                   res |-> "none", n |-> 0, ptype |-> ptype,
                   fieldIndex |-> fieldIndex, fieldValues |-> fieldValues,
                   q |-> FilteredLine(ptype, fieldIndex, fieldValues)]]
    /\ UNCHANGED <<docs, exists, indexes, now, nextId, detached, client, log>>

DeleteManyDone(c) ==
    /\ Awaits(c, "deleteMany")
    /\ docs' = docs \ Matching(calls[c].q)
    /\ calls' = Replied(c, Cardinality(docs \ docs'))
    /\ UNCHANGED <<exists, indexes, now, nextId, detached, client, log>>

\* addPolicies, up to its await; ts are the clock readings of its loop.
AddPolicies(c, ptype, rules, ts) ==
    /\ CanStart(c)
    /\ nextId + Len(rules) - 1 <= MaxId
    /\ calls' = [calls EXCEPT ![c] =
                  [op |-> "addPolicies", pc |-> "insertMany", res |-> "none",
                   at |-> now, first |-> nextId,
                   ptype |-> ptype, rules |-> rules, k |-> 0,
                   lines |-> [i \in 1..Len(rules) |->
                                 savePolicyLine(ptype, rules[i], ts[i])]]]
    /\ now' = IF Len(rules) = 0 THEN now ELSE ts[Len(rules)]
    /\ UNCHANGED <<docs, exists, indexes, nextId, detached, client, log>>

\* insertMany is an ordered bulk write: the store inserts the documents one
\* after the other, and the call resumes after the last.
InsertManyStep(c) ==
    /\ Awaits(c, "insertMany")
    /\ calls[c].k < Len(calls[c].lines)
    /\ nextId <= MaxId
    /\ Insert(calls[c].lines[calls[c].k + 1])
    /\ calls' = IF calls[c].k + 1 = Len(calls[c].lines)
                THEN [calls EXCEPT ![c].k = @ + 1, ![c].pc = "done",
                                   ![c].res = "ok"]
                ELSE [calls EXCEPT ![c].k = @ + 1]
    /\ UNCHANGED <<now, detached, client, log>>

\* A bug a mutant introduces: a failed bulk write is rolled back.
InsertManyFail_rollback(c) ==
    /\ Awaits(c, "insertMany")
    /\ calls' = Failed(c, StoreError)
    /\ docs' = {d \in docs : d.id < calls[c].first}
    /\ UNCHANGED <<exists, indexes, now, nextId, detached, client, log>>

\* The bulk write stops at the first insert that fails (an empty batch is
\* refused by the driver): the documents inserted before it stay.
InsertManyFail(c) ==
    /\ Awaits(c, "insertMany")
    /\ calls' = Failed(c, StoreError)
    /\ UNCHANGED <<docs, exists, indexes, now, nextId, detached, client, log>>

\* Promise.all over the deletes, whose states are st: it rejects as soon as
\* one has failed, fulfils once all have succeeded, and is pending otherwise.
PromiseAll(st) ==
    IF \E i \in DOMAIN st : st[i] = "err" THEN "error"
    ELSE IF \A i \in DOMAIN st : st[i] = "ok" THEN "ok"
    ELSE "pending"

\* removePolicies, up to its await: every deleteOne is issued.
RemovePolicies(c, ptype, rules) ==
    /\ CanStart(c)
    /\ BagCardinality(detached) = 0
    /\ calls' = [calls EXCEPT ![c] =
                  [op |-> "removePolicies", pc |-> "awaitAll", res |-> "none",
                   n |-> 0, size |-> Cardinality(docs), before |-> docs,
                   ptype |-> ptype, rules |-> rules,
                   qs |-> [i \in 1..Len(rules) |->
                              deletePolicyLine(ptype, rules[i])],
                   st |-> [i \in 1..Len(rules) |-> "out"]]]
    /\ UNCHANGED <<docs, exists, indexes, now, nextId, detached, client, log>>

\* The store applies one of the outstanding deletes of removePolicies.
BatchDeleteDone(c, i) ==
    /\ Awaits(c, "awaitAll")
    /\ i \in DOMAIN calls[c].st /\ calls[c].st[i] = "out"
    /\ docs' \in DeleteOne(calls[c].qs[i])
    /\ calls' = [calls EXCEPT ![c].st[i] = "ok",
                              ![c].n = @ + Cardinality(docs \ docs')]
    /\ UNCHANGED <<exists, indexes, now, nextId, detached, client, log>>

\* The store fails one of the outstanding deletes of removePolicies.
BatchDeleteFail(c, i) ==
    /\ Awaits(c, "awaitAll")
    /\ i \in DOMAIN calls[c].st /\ calls[c].st[i] = "out"
    /\ calls' = [calls EXCEPT ![c].st[i] = "err"]
    /\ UNCHANGED <<docs, exists, indexes, now, nextId, detached, client, log>>

\* The deletes of a removePolicies call that are still outstanding, as a bag
\* of queries.
Outstanding(cl) ==
    LET out == {j \in DOMAIN cl.st : cl.st[j] = "out"}
    IN  [q \in {cl.qs[j] : j \in out} |->
            Cardinality({j \in out : cl.qs[j] = q})]

\* await Promise.all(promises) resumes; the deletes still outstanding stay in
\* flight.
RemovePoliciesSettle(c) ==
    /\ Awaits(c, "awaitAll")
    /\ PromiseAll(calls[c].st) # "pending"
    /\ calls' = IF PromiseAll(calls[c].st) = "error"
                THEN Failed(c, StoreError) ELSE Done(c, "ok")
    /\ detached' = detached (+) Outstanding(calls[c])
    /\ UNCHANGED <<docs, exists, indexes, now, nextId, client, log>>

\* The store applies, or fails, a delete whose call has already returned.
DetachedDelete(q, ok) ==
    /\ NoneDone
    /\ BagIn(q, detached)
    /\ detached' = detached (-) SetToBag({q})
    /\ docs' \in IF ok THEN DeleteOne(q) ELSE {docs}
    /\ UNCHANGED <<exists, indexes, now, nextId, calls, client, log>>

\* savePolicy, up to the await of clearCollection.
SavePolicy(c, this, model) ==
    /\ CanStart(c)
    /\ nextId + Len(getAllPolicyRules(model)) - 1 <= MaxId
    /\ calls' = [calls EXCEPT ![c] =
                  [op |-> "savePolicy", pc |-> "clear", res |-> "none",
                   n |-> 0, first |-> nextId, req |-> "none",
                   drop |-> this.dropCollectionOnManualSave, model |-> model]]
    /\ UNCHANGED <<docs, exists, indexes, now, nextId, detached, client, log>>

\* A bug a mutant introduces: clearCollection removes nothing.
Cleared_keeps == docs

\* The collection after clearCollection's delete-all or drop.
Cleared == {}

\* A bug a mutant introduces: the flag is read the wrong way round.
clearCollection_flagInverted(dropCollectionOnManualSave, collectionExists) ==
    IF collectionExists
    THEN IF dropCollectionOnManualSave THEN "deleteMany" ELSE "drop"
    ELSE "none"

\* The request clearCollection issues after listing the collections: a drop
\* or a delete-all when the collection exists, none when it does not.
clearCollection(dropCollectionOnManualSave, collectionExists) ==
    IF collectionExists
    THEN IF dropCollectionOnManualSave THEN "drop" ELSE "deleteMany"
    ELSE "none"

\* clearCollection is done (a drop, a delete-all, or nothing when the
\* collection does not exist); savePolicy then builds the documents of the
\* model's rules, ts being the clock readings, and goes on to insertMany,
\* or returns true when there is no rule.  gone are the documents the clear
\* has removed.
ClearDone(c, ts) ==
    /\ Awaits(c, "clear")
    /\ LET req == clearCollection(calls[c].drop, exists)
           allRules == getAllPolicyRules(calls[c].model)
       IN  /\ docs' = IF req = "none" THEN docs ELSE Cleared
           /\ exists' = IF req = "drop" THEN FALSE ELSE exists
           /\ indexes' = IF req = "drop" THEN {} ELSE indexes
           /\ DOMAIN ts = 1..Len(allRules)
           /\ now' = IF Len(allRules) = 0 THEN now ELSE ts[Len(allRules)]
           /\ calls' = IF Len(allRules) > 0
                       THEN [calls EXCEPT ![c] =
                              [calls[c] EXCEPT !.pc = "insertMany",
                                               !.req = req,
                                               !.n = Cardinality(docs \ docs')] @@
                              [k |-> 0, gone |-> docs \ docs',
                               lines |-> [i \in 1..Len(allRules) |->
                                  savePolicyLine(allRules[i][1],
                                                 allRules[i][2], ts[i])]]]
                       ELSE [calls EXCEPT ![c] =
                              [calls[c] EXCEPT !.pc = "done", !.res = "ok",
                                               !.req = req,
                                               !.n = Cardinality(docs \ docs')] @@
                              [gone |-> docs \ docs']]
    /\ UNCHANGED <<nextId, detached, client, log>>

\* isFiltered
isFiltered(this) == this.useFilter

\* A bug a mutant introduces: the filter is applied in either mode.
FindQuery_always(this, filter) == filter

\* The query of getFilteredPolicyLines: the filter when this.useFilter, and
\* every document otherwise.
FindQuery(this, filter) == IF this.useFilter THEN filter ELSE <<>>

\* loadFilteredPolicy, up to its await.  loadPolicy is the same call with no
\* filter, hence with the filter that matches everything.
LoadFilteredPolicy(c, this, filter) ==
    /\ CanStart(c)
    /\ calls' = [calls EXCEPT ![c] =
                  [op |-> "loadFilteredPolicy", pc |-> "find", res |-> "none",
                   this |-> this,
                   filter |-> filter, q |-> FindQuery(this, filter),
                   fed |-> <<>>]]
    /\ UNCHANGED <<docs, exists, indexes, now, nextId, detached, client, log>>

\* loadPolicy: loadFilteredPolicy with no filter, which find() takes as the
\* filter that matches everything.
LoadPolicy(c, this) ==
    /\ CanStart(c)
    /\ calls' = [calls EXCEPT ![c] =
                  [op |-> "loadPolicy", pc |-> "find", res |-> "none",
                   this |-> this,
                   filter |-> <<>>, q |-> FindQuery(this, <<>>),
                   fed |-> <<>>]]
    /\ UNCHANGED <<docs, exists, indexes, now, nextId, detached, client, log>>

\* The lines loadFilteredPolicy feeds the hook when find(q) answers with the
\* matching documents of S.
LinesOf(S, q) ==
    [i \in 1..Cardinality(MatchingIn(S, q)) |->
        loadPolicyLine(InOrder(MatchingIn(S, q))[i])]

\* find() answers, and every line is fed to the loading hook.
FindDone(c) ==
    /\ Awaits(c, "find")
    /\ calls' = [calls EXCEPT ![c].pc = "done", ![c].res = "ok",
                              ![c].fed = LinesOf(docs, calls[c].q)]
    /\ UNCHANGED <<docs, exists, indexes, now, nextId, detached, client, log>>

-----------------------------------------------------------------------------
(* Construction, open and close *)

\* The connection strings given to the adapter: none, one the client
\* refuses, and a valid one.
Uris == {"", "invalid://uri", "mongodb://localhost"}

\* new MongoClient(uri, options) throws on a connection string it cannot
\* parse.
ValidUri(uri) == uri = "mongodb://localhost"

\* The error new MongoClient throws.
ClientError ==
    [kind |-> "MongoParseError", message |-> "Invalid scheme", cause |-> NoCause]

\* A bug a mutant introduces: the constructor does not check the connection
\* string.
constructor_noCheck(uri) ==
    IF ~ValidUri(uri) /\ uri # ""
    THEN [threw |-> TRUE, client |-> client,
          err |-> wrapError(ClientError, "Failed to create MongoClient")]
    ELSE [threw |-> FALSE, client |-> "created", err |-> NoCause]

\* The constructor: whether it throws, what it throws, and the client
\* afterwards.
constructor(uri) ==
    IF uri = ""
    THEN [threw |-> TRUE, client |-> client,
          err |-> MongoAdapterError("MongoDB URI is required.", NoCause)]
    ELSE IF ~ValidUri(uri)
         THEN [threw |-> TRUE, client |-> client,
               err |-> wrapError(ClientError, "Failed to create MongoClient")]
         ELSE [threw |-> FALSE, client |-> "created", err |-> NoCause]

\* The record of a call that runs open or createIndexes.
Opening(op, pc, uri, this) ==
    [op |-> op, pc |-> pc, res |-> "none", uri |-> uri, this |-> this,
     failed |-> FALSE, existing |-> {}, created |-> {}]

\* newAdapter: the constructor, then up to the first await of open.
NewAdapter(c, uri, filtered, dropCollectionOnManualSave) ==
    /\ CanStart(c)
    /\ LET made == constructor(uri)
           call == Opening("newAdapter", "connect", uri,
                           [useFilter |-> filtered,
                            dropCollectionOnManualSave |->
                                dropCollectionOnManualSave])
       IN  /\ client' = made.client
           /\ calls' = [calls EXCEPT ![c] =
                 IF made.threw
                 THEN [call EXCEPT !.pc = "done", !.res = "error"] @@
                      [err |-> made.err]
                 ELSE call]
    /\ UNCHANGED <<docs, exists, indexes, now, nextId, detached, log>>

\* open of the adapter already made, up to its first await.
Open(c, this) ==
    /\ CanStart(c)
    /\ client # "none"
    /\ calls' = [calls EXCEPT ![c] = Opening("open", "connect", "", this)]
    /\ UNCHANGED <<docs, exists, indexes, now, nextId, detached, client, log>>

\* mongoClient.connect() is done; createCollection lists the collections.
ConnectDone(c) ==
    /\ Awaits(c, "connect")
    /\ client' = "connected"
    /\ calls' = [calls EXCEPT ![c].pc = "listCollections"]
    /\ UNCHANGED <<docs, exists, indexes, now, nextId, detached, log>>

\* What open throws when the request it awaits at pc is rejected: connect
\* fails in open itself, the rest in createCollection, whose error open wraps
\* again.
OpenError(pc) ==
    LET context == "Failed to open MongoDB connection and create collection"
    IN  IF pc = "connect" THEN wrapError(StoreError, context)
        ELSE wrapError(
                 wrapError(StoreError,
                     "Failed to create collection '" \o CollectionName \o "'"),
                 context)

\* The store rejects connect, listCollections or createCollection.
OpenFail(c) ==
    /\ calls[c].pc \in {"connect", "listCollections", "createCollection"}
    /\ NoneDone
    /\ calls' = Failed(c, OpenError(calls[c].pc))
    /\ UNCHANGED <<docs, exists, indexes, now, nextId, detached, client, log>>

\* listCollections answers: createCollection creates the collection when it
\* does not exist, and createIndexes follows.
ListCollectionsDone(c) ==
    /\ Awaits(c, "listCollections")
    /\ calls' = [calls EXCEPT ![c].pc =
                    IF exists THEN "listIndexes" ELSE "createCollection"]
    /\ UNCHANGED <<docs, exists, indexes, now, nextId, detached, client, log>>

\* db.createCollection is done.  When another adapter has created the
\* collection since this one listed the collections, it depends on the server
\* whether the request is answered like this or rejected
\* (CreateCollectionExists).
CreateCollectionDone(c) ==
    /\ Awaits(c, "createCollection")
    /\ exists' = TRUE
    /\ log' = log \cup {"Collection '" \o CollectionName \o "' created"}
    /\ calls' = [calls EXCEPT ![c].pc = "listIndexes"]
    /\ UNCHANGED <<docs, indexes, now, nextId, detached, client>>

\* The error of a server that refuses to create a collection that exists.
NamespaceExists ==
    [kind |-> "MongoServerError", message |-> "Collection already exists",
     cause |-> NoCause]

\* db.createCollection is rejected because the collection exists by now:
\* createCollection wraps the error, and open wraps it again.
CreateCollectionExists(c) ==
    /\ Awaits(c, "createCollection")
    /\ exists
    /\ calls' = Failed(c,
          wrapError(
              wrapError(NamespaceExists,
                  "Failed to create collection '" \o CollectionName \o "'"),
              "Failed to open MongoDB connection and create collection"))
    /\ UNCHANGED <<docs, exists, indexes, now, nextId, detached, client, log>>

\* createIndexes called on its own, up to its first await.
CreateIndexes(c, this) ==
    /\ CanStart(c)
    /\ client = "connected"
    /\ calls' = [calls EXCEPT ![c] =
                    Opening("createIndexes", "listIndexes", "", this)]
    /\ UNCHANGED <<docs, exists, indexes, now, nextId, detached, client, log>>

\* A bug a mutant introduces: every index is created, listed or not.
Pending_all(cl) ==
    SelectSeq(IndexNames, LAMBDA x : x \notin cl.created)

\* The indexes createIndexes has still to create: those the listing lacked,
\* in order.
Pending(cl) ==
    SelectSeq(IndexNames, LAMBDA x : x \notin cl.existing /\ x \notin cl.created)

\* The message logged when index x has been created.
CreatedMessage(x) ==
    IF x = IndexNames[1] THEN "Compound index created for ptype and v0-v5"
    ELSE IF x = IndexNames[2] THEN "Index created for createdAt"
    ELSE "Index created for updatedAt"

\* listIndexes answers with the existing indexes.
ListIndexesDone(c) ==
    /\ Awaits(c, "listIndexes")
    /\ exists
    /\ LET cl == [calls[c] EXCEPT !.existing = indexes]
       IN  calls' = [calls EXCEPT ![c] =
                       IF Pending(cl) = <<>>
                       THEN [cl EXCEPT !.pc = "done", !.res = "ok"]
                       ELSE [cl EXCEPT !.pc = "createIndex"]]
    /\ UNCHANGED <<docs, exists, indexes, now, nextId, detached, client, log>>

\* The store has created the next index createIndexes asked for.
CreateIndexDone(c) ==
    /\ Awaits(c, "createIndex")
    /\ LET x == Head(Pending(calls[c]))
           cl == [calls[c] EXCEPT !.created = @ \cup {x}]
       IN  /\ indexes' = indexes \cup {x}
           /\ log' = log \cup {CreatedMessage(x)}
           /\ calls' = [calls EXCEPT ![c] =
                          IF Pending(cl) = <<>>
                          THEN [cl EXCEPT !.pc = "done", !.res = "ok"]
                          ELSE cl]
    /\ UNCHANGED <<docs, exists, now, nextId, detached, client>>

\* A bug a mutant introduces: createIndexes rethrows.
IndexFail_rethrows(c) ==
    /\ calls[c].pc \in {"listIndexes", "createIndex"}
    /\ NoneDone
    /\ calls' = Failed(c, wrapError(StoreError, "Failed to create database indexes"))
    /\ UNCHANGED <<docs, exists, indexes, now, nextId, detached, client, log>>

\* The store rejects listIndexes or createIndex: createIndexes logs the
\* error and returns.
IndexFail(c) ==
    /\ calls[c].pc \in {"listIndexes", "createIndex"}
    /\ NoneDone
    /\ log' = log \cup {"Failed to create database indexes:"}
    /\ calls' = [calls EXCEPT ![c].pc = "done", ![c].res = "ok",
                              ![c].failed = TRUE]
    /\ UNCHANGED <<docs, exists, indexes, now, nextId, detached, client>>

\* close, up to its await.
Close(c) ==
    /\ CanStart(c)
    /\ client # "none"
    /\ calls' = [calls EXCEPT ![c] =
                    [op |-> "close", pc |-> "close", res |-> "none"]]
    /\ UNCHANGED <<docs, exists, indexes, now, nextId, detached, client, log>>

\* mongoClient.close() is done.
CloseDone(c) ==
    /\ Awaits(c, "close")
    /\ client' = "closed"
    /\ calls' = Done(c, "ok")
    /\ UNCHANGED <<docs, exists, indexes, now, nextId, detached, log>>

\* The error of a client that has no connection.
NotConnected ==
    [kind |-> "Error", message |-> "Not connected", cause |-> NoCause]

\* The errors with which the client rejects close().
CloseErrors == {StoreError, NotConnected}

\* mongoClient.close() is rejected with error.
CloseFail(c, error) ==
    /\ Awaits(c, "close")
    /\ calls' = Failed(c, wrapError(error, "Failed to close MongoDB connection"))
    /\ UNCHANGED <<docs, exists, indexes, now, nextId, detached, client, log>>

-----------------------------------------------------------------------------
(* Specifications *)

\* The store-native filters given to loadFilteredPolicy.
Filters == {<<>>, [ptype |-> "p"], [ptype |-> "p", v |-> (0 :> "a")]}

\* The value lists given to removeFilteredPolicy.
ValueLists == {<<>>, <<"a">>, <<"b">>, <<"a", "b">>, <<"b", "a">>}

\* The clock readings of a loop during which the clock stands still.
Still(n) == [i \in 1..n |-> now]

\* What callers pass as (ptype, rule): every rule as a policy rule, and one
\* rule as a grouping rule too.
RuleArgs == ({"p"} \X Rules) \cup ({"g"} \X {<<"a">>})

\* What callers pass to updatePolicy as (ptype, oldRule, newRule).
UpdateArgs ==
    ({"p"} \X {Alt(0), Alt(1), Alt(2)} \X {Alt(0), Alt(1), Alt(2)})
    \cup {<<"p", Alt(MaxRuleLen), Alt(1)>>, <<"g", <<"a">>, <<"b">> >>}

\* One caller, single-rule operations and load, the clock standing still.
Next ==
    \/ Return("c1")
    \/ StoreFail("c1")
    \/ \E a \in RuleArgs : AddPolicy("c1", a[1], a[2])
    \/ InsertOneDone("c1")
    \/ \E a \in RuleArgs : RemovePolicy("c1", a[1], a[2])
    \/ DeleteOneDone("c1")
    \/ \E a \in UpdateArgs : UpdatePolicy("c1", a[1], a[2], a[3])
    \/ UpdateOneDone("c1")
    \/ \E ptype \in PTypes, fieldIndex \in 0..(NumFields - 1),
          fieldValues \in ValueLists :
          RemoveFilteredPolicy("c1", ptype, fieldIndex, fieldValues)
    \/ DeleteManyDone("c1")
    \/ \E this \in Adapters, filter \in Filters :
          ~this.dropCollectionOnManualSave /\ LoadFilteredPolicy("c1", this, filter)
    \/ FindDone("c1")

Spec == Init /\ [][Next]_vars

\* The rules of the timed runs: a short one and one of more fields than a
\* document holds.
TimeRules == {Alt(1), Alt(MaxRuleLen)}

\* One caller adding and updating while the clock runs.
NextTime ==
    \/ Tick
    \/ Return("c1")
    \/ StoreFail("c1")
    \/ \E rule \in TimeRules : AddPolicy("c1", "p", rule)
    \/ InsertOneDone("c1")
    \/ \E oldRule \in TimeRules, newRule \in TimeRules :
          UpdatePolicy("c1", "p", oldRule, newRule)
    \/ UpdateOneDone("c1")
    \/ \E rules \in Batches : \E ts \in Stamps(now, Len(rules)) :
          AddPolicies("c1", "p", rules, ts)
    \/ InsertManyStep("c1")
    \/ InsertManyFail("c1")

SpecTime == Init /\ [][NextTime]_vars

\* The clock readings savePolicy may take for a model of at most MaxBatch
\* rules.
SaveStamps == UNION {Stamps(now, n) : n \in 0..MaxBatch}

\* Caller c1 adds and saves while caller c2 loads.
NextSave ==
    \/ Tick
    \/ \E c \in Callers : Return(c)
    \/ \E c \in Callers : StoreFail(c)
    \/ AddPolicy("c1", "p", <<"a">>)
    \/ InsertOneDone("c1")
    \/ \E this \in Adapters, model \in Models :
          ~this.useFilter /\ SavePolicy("c1", this, model)
    \/ \E ts \in SaveStamps : ClearDone("c1", ts)
    \/ InsertManyStep("c1")
    \/ InsertManyFail("c1")
    \/ \E this \in Adapters :
          /\ this.useFilter /\ ~this.dropCollectionOnManualSave
          /\ LoadFilteredPolicy("c2", this, <<>>)
    \/ FindDone("c2")

SpecSave == Init /\ [][NextSave]_vars

\* The queries of the deletes removePolicies issues.
BatchQueries == {deletePolicyLine("p", rule) : rule \in BatchRules}

\* One caller adding and removing lists of rules, the clock standing still.
NextBatch ==
    \/ Return("c1")
    \/ \E rules \in Batches : AddPolicies("c1", "p", rules, Still(Len(rules)))
    \/ InsertManyStep("c1")
    \/ InsertManyFail("c1")
    \/ \E rules \in Batches : RemovePolicies("c1", "p", rules)
    \/ \E i \in 1..MaxBatch : BatchDeleteDone("c1", i)
    \/ \E i \in 1..MaxBatch : BatchDeleteFail("c1", i)
    \/ RemovePoliciesSettle("c1")
    \/ \E q \in BatchQueries, ok \in BOOLEAN : DetachedDelete(q, ok)

SpecBatch == Init /\ [][NextBatch]_vars

\* One caller making, opening and closing adapters on a database that has no
\* collection yet, and adding and loading through the open adapter.
NextOpen ==
    \/ Return("c1")
    \/ \E uri \in Uris, filtered \in BOOLEAN, drop \in BOOLEAN :
          NewAdapter("c1", uri, filtered, drop)
    \/ \E this \in Adapters : Open("c1", this)
    \/ ConnectDone("c1")
    \/ OpenFail("c1")
    \/ ListCollectionsDone("c1")
    \/ CreateCollectionDone("c1")
    \/ \E this \in Adapters : CreateIndexes("c1", this)
    \/ ListIndexesDone("c1")
    \/ CreateIndexDone("c1")
    \/ IndexFail("c1")
    \/ Close("c1")
    \/ CloseDone("c1")
    \/ \E error \in CloseErrors : CloseFail("c1", error)
    \/ client = "connected" /\ AddPolicy("c1", "p", <<"a">>)
    \/ InsertOneDone("c1")
    \/ \E this \in Adapters :
          client = "connected" /\ LoadFilteredPolicy("c1", this, <<>>)
    \/ FindDone("c1")
    \/ StoreFail("c1")

SpecOpen == InitFresh /\ [][NextOpen]_vars

\* What the loading runs add: rules of either type, one a prefix of another,
\* and one with an empty-string field.
LoadArgs ==
    ({"p"} \X {<<"a">>, <<"a", "b">>, <<"a", "">>}) \cup ({"g"} \X {<<"a">>})

\* One caller adding rules and loading them, with and without a filter, in
\* either filtering mode.
NextLoad ==
    \/ Return("c1")
    \/ StoreFail("c1")
    \/ \E a \in LoadArgs : AddPolicy("c1", a[1], a[2])
    \/ InsertOneDone("c1")
    \/ \E this \in Adapters, filter \in Filters :
          ~this.dropCollectionOnManualSave /\ LoadFilteredPolicy("c1", this, filter)
    \/ \E this \in Adapters :
          ~this.dropCollectionOnManualSave /\ LoadPolicy("c1", this)
    \/ FindDone("c1")

SpecLoad == Init /\ [][NextLoad]_vars

\* The rules of the runs with two callers: a rule and a rule it is a prefix
\* of.
PairRules == {<<"a">>, <<"a", "b">>}

\* Two callers whose calls overlap while the clock runs: c1 updates while c2
\* adds, removes and loads.
NextPair ==
    \/ Tick
    \/ \E c \in Callers : Return(c)
    \/ StoreFail("c1")
    \/ \E oldRule \in PairRules, newRule \in PairRules :
          UpdatePolicy("c1", "p", oldRule, newRule)
    \/ UpdateOneDone("c1")
    \/ \E rule \in PairRules : AddPolicy("c2", "p", rule)
    \/ InsertOneDone("c2")
    \/ \E rule \in PairRules : RemovePolicy("c2", "p", rule)
    \/ DeleteOneDone("c2")
    \/ LoadPolicy("c2", [useFilter |-> FALSE, dropCollectionOnManualSave |-> FALSE])
    \/ FindDone("c2")

SpecPair == Init /\ [][NextPair]_vars

\* Two callers each making and opening an adapter on the database that has
\* no collection yet, the store failing no request for a reason of its own.
NextRace ==
    \/ \E c \in Callers : Return(c)
    \/ \E c \in Callers : NewAdapter(c, "mongodb://localhost", FALSE, FALSE)
    \/ \E c \in Callers : ConnectDone(c)
    \/ \E c \in Callers : ListCollectionsDone(c)
    \/ \E c \in Callers : CreateCollectionDone(c)
    \/ \E c \in Callers : CreateCollectionExists(c)
    \/ \E c \in Callers : ListIndexesDone(c)
    \/ \E c \in Callers : CreateIndexDone(c)

SpecRace == InitFresh /\ [][NextRace]_vars

\* The rules of the runs with both rule types.
FrameRules == {<<"a">>, <<"a", "b">>}

\* The queries of the deletes removePolicies issues in these runs.
FrameQueries ==
    {deletePolicyLine(ptype, rule) : ptype \in PTypes, rule \in FrameRules}

\* One caller adding rules of both types, and removing and updating them
\* with every operation that takes a rule type.
NextFrame ==
    \/ Return("c1")
    \/ \E ptype \in PTypes, rule \in FrameRules : AddPolicy("c1", ptype, rule)
    \/ InsertOneDone("c1")
    \/ \E ptype \in PTypes, rule \in FrameRules : RemovePolicy("c1", ptype, rule)
    \/ DeleteOneDone("c1")
    \/ \E ptype \in PTypes, rules \in SeqsUpTo(FrameRules, MaxBatch) :
          RemovePolicies("c1", ptype, rules)
    \/ \E i \in 1..MaxBatch : BatchDeleteDone("c1", i)
    \/ \E i \in 1..MaxBatch : BatchDeleteFail("c1", i)
    \/ RemovePoliciesSettle("c1")
    \/ \E q \in FrameQueries, ok \in BOOLEAN : DetachedDelete(q, ok)
    \/ \E ptype \in PTypes, fieldIndex \in 0..1,
          fieldValues \in {<<>>, <<"a">>, <<"b">>} :
          RemoveFilteredPolicy("c1", ptype, fieldIndex, fieldValues)
    \/ DeleteManyDone("c1")
    \/ \E ptype \in PTypes, oldRule \in FrameRules \cup {<<>>},
          newRule \in FrameRules :
          UpdatePolicy("c1", ptype, oldRule, newRule)
    \/ UpdateOneDone("c1")

SpecFrame == Init /\ [][NextFrame]_vars

-----------------------------------------------------------------------------
(* Properties *)

\* The call of caller c that awaited pc resumes with success in this step.
Resumes(c, pc) ==
    calls[c].pc = pc /\ calls'[c].pc = "done" /\ calls'[c].res = "ok"

\* d is the document of rule under ptype: its positional fields are exactly
\* those of the rule (the first NumFields of them), with the rule's values.
IsRule(d, ptype, rule) ==
    /\ d.ptype = ptype
    /\ DOMAIN d.v = 0..(Min(Len(rule), NumFields) - 1)
    /\ \A i \in DOMAIN d.v : d.v[i] = rule[i + 1]

\* The texts load all feeds the hook from the documents S.
Fed(S) == {LinesOf(S, <<>>)[i] : i \in 1..Cardinality(S)}

\* The text of rule under ptype: "ptype, v0, v1, ...".
TextOf(ptype, rule) == ptype \o ", " \o Join(rule, ", ")

\* A rule of 1 to 6 fields, none empty.
NonEmptyRule(rule) ==
    Len(rule) \in 1..NumFields /\ \A i \in 1..Len(rule) : rule[i] # ""

\* C1: add one(ptype, r) on a collection with no document for r makes load
\* all feed the line of r; the remove one(ptype, r) that follows (the
\* collection holding the one document for r) leaves no document for r, and
\* load all feeds no line for r.
C1_AddRemoveRoundTrip ==
    [][\A c \in Callers :
        LET cl == calls[c]
        IN  /\ (/\ Resumes(c, "insertOne")
                /\ NonEmptyRule(cl.rule)
                /\ ~\E d \in docs : IsRule(d, cl.ptype, cl.rule))
               => TextOf(cl.ptype, cl.rule) \in Fed(docs')
            /\ (/\ Resumes(c, "deleteOne")
                /\ NonEmptyRule(cl.rule)
                /\ Cardinality({d \in docs : IsRule(d, cl.ptype, cl.rule)}) = 1)
               => /\ ~\E d \in docs' : IsRule(d, cl.ptype, cl.rule)
                  /\ TextOf(cl.ptype, cl.rule) \notin Fed(docs')]_vars

\* C2: remove one(ptype, rule) deletes at most one document, and only the
\* document of exactly that rule; with no such document the collection is
\* unchanged.
C2_RemoveOneExactKey ==
    [][\A c \in Callers :
        Resumes(c, "deleteOne") =>
            LET cl == calls[c]
                gone == docs \ docs'
            IN  /\ docs' \subseteq docs
                /\ Cardinality(gone) <= 1
                /\ \A d \in gone : IsRule(d, cl.ptype, cl.rule)
                /\ (~\E d \in docs : IsRule(d, cl.ptype, cl.rule))
                      => docs' = docs]_vars

\* C3: a document that update one(ptype, old, new) modifies has afterwards
\* exactly the positional fields of the new rule.
C3_UpdateLeavesNewFieldsOnly ==
    [][\A c \in Callers :
        Resumes(c, "updateOne") =>
            \A d \in docs, e \in docs' :
                (d.id = e.id /\ d # e) =>
                    IsRule(e, calls[c].ptype, calls[c].newRule)]_vars

\* d has the values xs in its fields v(o), v(o+1), ...
InWindow(d, ptype, o, xs) ==
    /\ d.ptype = ptype
    /\ \A j \in 1..Len(xs) : (o + j - 1) \in DOMAIN d.v /\ d.v[o + j - 1] = xs[j]

\* d has the values xs in those of its fields v(o), v(o+1), ... that a
\* document can have: the values addressed past v5 are not compared.
InWindowOfDocument(d, ptype, o, xs) ==
    /\ d.ptype = ptype
    /\ \A j \in 1..Len(xs) :
          o + j - 1 < NumFields =>
              (o + j - 1) \in DOMAIN d.v /\ d.v[o + j - 1] = xs[j]

\* C5 as stated: remove filtered(ptype, o, xs) deletes exactly the documents
\* of ptype whose v(o)..v(o+k) equal xs, for every offset and value list.
C5_RemoveFilteredWholeList ==
    [][\A c \in Callers :
        Resumes(c, "deleteMany") =>
            docs' = {d \in docs : ~InWindow(d, calls[c].ptype,
                                   calls[c].fieldIndex, calls[c].fieldValues)}]_vars

\* C5, amended: remove filtered(ptype, o, xs) deletes exactly the documents of
\* ptype whose fields from v(o) up to v5 equal the values of xs given for
\* them, and leaves every other document unchanged.
C5_RemoveFilteredWindow ==
    [][\A c \in Callers :
        Resumes(c, "deleteMany") =>
            docs' = {d \in docs : ~InWindowOfDocument(d, calls[c].ptype,
                                   calls[c].fieldIndex, calls[c].fieldValues)}]_vars

\* A remove filtered at an offset past v0, with a value list reaching past
\* v5, has deleted a document and left another of the same ptype.
C5_Witness ==
    \E c \in Callers :
        /\ calls[c].op = "removeFilteredPolicy" /\ calls[c].pc = "done"
        /\ calls[c].res = "ok" /\ calls[c].n >= 1
        /\ calls[c].fieldIndex >= 1
        /\ calls[c].fieldIndex + Len(calls[c].fieldValues) > NumFields
        /\ \E d \in docs : d.ptype = calls[c].ptype

\* The call of caller c that awaited pc resumes with a failure in this step.
Fails(c, pc) ==
    calls[c].pc = pc /\ calls'[c].pc = "done" /\ calls'[c].res = "error"

\* C4 as stated: update one leaves createdAt of the document it modifies
\* unchanged and makes its updatedAt strictly greater than before.
C4_UpdateAdvancesUpdatedAt ==
    [][\A c \in Callers :
        Resumes(c, "updateOne") =>
            \A d \in docs, e \in docs' :
                (d.id = e.id /\ d # e) =>
                    e.createdAt = d.createdAt /\ e.updatedAt > d.updatedAt]_vars

\* C4, amended: update one leaves createdAt of the document it modifies
\* unchanged and sets its updatedAt to the clock reading of the call, which
\* is never before the previous value (and is after it only when the clock
\* has advanced since).
C4_UpdateKeepsCreatedAt ==
    [][\A c \in Callers :
        Resumes(c, "updateOne") =>
            \A d \in docs, e \in docs' :
                (d.id = e.id /\ d # e) =>
                    /\ e.createdAt = d.createdAt
                    /\ e.updatedAt = calls[c].at
                    /\ e.updatedAt >= d.updatedAt]_vars

\* An update one has modified a document whose updatedAt is now after its
\* createdAt.
C4_Witness ==
    \E c \in Callers :
        /\ calls[c].op = "updatePolicy" /\ calls[c].pc = "done"
        /\ calls[c].res = "ok" /\ calls[c].n = 1
        /\ \E d \in docs : d.updatedAt = calls[c].at /\ d.createdAt < d.updatedAt

\* e is a new document of the step, for rule under ptype, and the step
\* changes nothing else of the collection.
InsertsOnly(e, ptype, rule) ==
    /\ docs' = docs \cup {e}
    /\ \A d \in docs : d.id # e.id
    /\ IsRule(e, ptype, rule)

\* C6: a successful add one inserts exactly one document, for its rule, whose
\* createdAt and updatedAt both are the clock reading of the call; a
\* successful add many inserts one document per rule of its list, in order,
\* each with createdAt = updatedAt, a clock reading taken during the call;
\* fields past v5 are dropped and the documents already stored are unchanged.
C6_AddInsertsOnePerRule ==
    [][\A c \in Callers :
        LET cl == calls[c]
        IN  /\ Resumes(c, "insertOne") =>
                  \E e \in docs' \ docs :
                      /\ InsertsOnly(e, cl.ptype, cl.rule)
                      /\ e.createdAt = cl.at /\ e.updatedAt = cl.at
            /\ (/\ cl.op = "addPolicies" /\ cl.pc = "insertMany"
                /\ docs' # docs) =>
                  /\ calls'[c].k = cl.k + 1
                  /\ \E e \in docs' \ docs :
                        /\ InsertsOnly(e, cl.ptype, cl.rules[cl.k + 1])
                        /\ e.id = cl.first + cl.k
                        /\ e.createdAt = e.updatedAt
                        /\ cl.at <= e.createdAt /\ e.createdAt <= now
            /\ (cl.op = "addPolicies" /\ Resumes(c, "insertMany")) =>
                  /\ calls'[c].k = Len(cl.rules)
                  /\ \A i \in 1..Len(cl.rules) :
                        \E d \in docs' :
                            d.id = cl.first + i - 1
                            /\ IsRule(d, cl.ptype, cl.rules[i])]_vars

\* An add many of two rules has succeeded, the clock having advanced between
\* the two documents it built.
C6_Witness ==
    \E c \in Callers :
        /\ calls[c].op = "addPolicies" /\ calls[c].pc = "done"
        /\ calls[c].res = "ok" /\ calls[c].k >= 2
        /\ \E d \in docs, e \in docs :
              /\ d.id = calls[c].first /\ e.id = calls[c].first + 1
              /\ d.createdAt < e.createdAt

\* The rules of a model in the order save all stores them: the policy
\* section in model order, then the grouping section.
RulesInOrder(model) ==
    FlatRules(model.p) \o (IF "g" \in DOMAIN model THEN FlatRules(model.g) ELSE <<>>)

\* C7: when save all succeeds, the collection holds exactly one document per
\* rule of the model, the policy rules in model order followed by the
\* grouping rules, each with createdAt = updatedAt, and none of the documents
\* stored before the call.
C7_SaveAllResult ==
    \A c \in Callers :
        (calls[c].op = "savePolicy" /\ calls[c].pc = "done"
         /\ calls[c].res = "ok") =>
            LET expected == RulesInOrder(calls[c].model)
            IN  /\ Cardinality(docs) = Len(expected)
                /\ \A i \in 1..Len(expected) :
                      LET d == InOrder(docs)[i]
                      IN  /\ IsRule(d, expected[i][1], expected[i][2])
                          /\ d.createdAt = d.updatedAt
                          /\ d.id >= calls[c].first

\* A save all of a model with rules has succeeded on a collection that held
\* documents.
C7_Witness ==
    \E c \in Callers :
        /\ calls[c].op = "savePolicy" /\ calls[c].pc = "done"
        /\ calls[c].res = "ok" /\ calls[c].n >= 1
        /\ docs # {}

\* The save all of caller c has cleared the collection and has inserted no
\* document yet: it awaits the bulk insert, or the bulk insert has failed.
InSaveGap(c) ==
    /\ calls[c].op = "savePolicy"
    /\ calls[c].pc \in {"insertMany", "done"}
    /\ "k" \in DOMAIN calls[c] /\ calls[c].k = 0

\* C8: between the clear and the bulk insert of a save all the collection is
\* empty, a load all answered then feeds nothing, and a bulk insert failing
\* then leaves the collection empty: the previous contents are not restored.
C8_SaveAllNotAtomic ==
    \A c \in Callers :
        InSaveGap(c) =>
            /\ docs = {}
            /\ \A r \in Callers :
                  (calls[r].op = "loadFilteredPolicy" /\ calls[r].pc = "done"
                   /\ calls[r].res = "ok") => calls[r].fed = <<>>

\* A save all has cleared a collection that held documents, and a load all
\* of another caller has been answered with nothing before the bulk insert.
C8_Witness ==
    \E c \in Callers, r \in Callers :
        /\ InSaveGap(c) /\ calls[c].pc = "insertMany" /\ calls[c].n >= 1
        /\ calls[r].op = "loadFilteredPolicy" /\ calls[r].pc = "done"
        /\ calls[r].res = "ok" /\ calls[r].fed = <<>>

\* C9 as stated: remove many returns only after all the deletes it issued
\* have settled.
C9_ReturnsAfterAllSettled ==
    \A c \in Callers :
        (calls[c].op = "removePolicies" /\ calls[c].pc = "done") =>
            \A i \in DOMAIN calls[c].st : calls[c].st[i] # "out"

\* C10: add many and remove many are not atomic as batches.  A step of the
\* store inserts or deletes at most one document; when the call fails, the
\* collection is left as the successful inserts and deletes made it; remove
\* many fails exactly when one of its deletes has failed, and when it resumes
\* the documents its deletes removed are gone.
C10_BatchNotRolledBack ==
    [][\A c \in Callers :
        LET cl == calls[c]
        IN  /\ Cardinality((docs \ docs') \cup (docs' \ docs)) <= 1
            /\ (Fails(c, "insertMany") \/ Fails(c, "awaitAll")) => docs' = docs
            /\ (cl.pc = "awaitAll" /\ calls'[c].pc = "done") =>
                  /\ Cardinality(docs') = cl.size - cl.n
                  /\ calls'[c].res = "error" <=>
                        \E i \in DOMAIN cl.st : cl.st[i] = "err"]_vars

\* An add many has failed after inserting a part of its list, which is in the
\* collection.
C10_Witness ==
    \E c \in Callers :
        /\ calls[c].op = "addPolicies" /\ calls[c].pc = "done"
        /\ calls[c].res = "error" /\ calls[c].k >= 1
        /\ calls[c].k < Len(calls[c].rules)
        /\ \E d \in docs : d.id = calls[c].first

\* C11 as stated: every store failure during an adapter operation reaches
\* the caller as the adapter's wrapped error: its kind is the adapter's, its
\* message is a context prefix, ": " and the message of the store's error,
\* and its cause is the store's error.
C11_FailuresAreWrapped ==
    \A c \in Callers :
        (calls[c].pc = "done" /\ calls[c].res = "error") =>
            /\ calls[c].err.kind = "MongoAdapterError"
            /\ calls[c].err.cause = StoreError
            /\ \E context \in {"Failed to load filtered policy",
                                "Failed to clear collection 'policies'"} :
                  calls[c].err.message = context \o ": " \o StoreError.message

\* C12: newAdapter with an empty connection string fails in the constructor,
\* with the adapter's error: the call rejects at once, no client is created,
\* open is not started (nothing is awaited) and nothing else changes.
C12_EmptyUriFailsFast ==
    [][\A c \in Callers :
        (calls[c].pc = "idle" /\ calls'[c].op = "newAdapter"
         /\ calls'[c].uri = "") =>
            /\ calls'[c].pc = "done" /\ calls'[c].res = "error"
            /\ calls'[c].err = MongoAdapterError("MongoDB URI is required.", NoCause)
            /\ client' = client
            /\ UNCHANGED <<docs, exists, indexes, log>>]_vars

\* A newAdapter with an empty connection string has been rejected, and there
\* is no client.
C12_Witness ==
    \E c \in Callers :
        /\ calls[c].op = "newAdapter" /\ calls[c].uri = ""
        /\ calls[c].pc = "done" /\ calls[c].res = "error"
        /\ client = "none"

\* The call of c is an open (of newAdapter or on its own) that has returned.
Opened(c) ==
    /\ calls[c].op \in {"newAdapter", "open"}
    /\ calls[c].pc = "done" /\ calls[c].res = "ok"

\* C13: after an open in which no index request failed, the collection
\* exists with exactly the three indexes, and the open has created exactly
\* those of the three that did not exist: all of them on a fresh collection,
\* none when it is opened again.
C13_OpenEnsuresThreeIndexes ==
    \A c \in Callers :
        (Opened(c) /\ ~calls[c].failed) =>
            /\ exists
            /\ indexes = ThreeIndexes
            /\ calls[c].created = ThreeIndexes \ calls[c].existing

\* An adapter has been opened again on the collection that had the three
\* indexes, and has created none.
C13_Witness ==
    \E c \in Callers :
        /\ Opened(c) /\ calls[c].op = "open" /\ ~calls[c].failed
        /\ calls[c].existing = ThreeIndexes /\ calls[c].created = {}

\* C14: when a request of createIndexes fails during open, open returns
\* normally with the client connected; and adding and loading through a
\* connected adapter work whatever indexes the collection has.
C14_IndexFailureSwallowed ==
    [][\A c \in Callers :
        LET cl == calls[c]
        IN  /\ (/\ cl.op \in {"newAdapter", "open"}
                /\ cl.pc \in {"listIndexes", "createIndex"}
                /\ calls'[c].pc = "done") =>
                  calls'[c].res = "ok" /\ client' = "connected"
            /\ Resumes(c, "insertOne") =>
                  \E e \in docs' \ docs : InsertsOnly(e, cl.ptype, cl.rule)
            /\ Resumes(c, "find") =>
                  Len(calls'[c].fed) = Cardinality(docs)]_vars

\* An add one has succeeded through an adapter after a failed index creation
\* left the collection without all its indexes.
C14_Witness ==
    \E c \in Callers :
        /\ calls[c].op = "addPolicy" /\ calls[c].pc = "done"
        /\ calls[c].res = "ok"
        /\ "Failed to create database indexes:" \in log
        /\ indexes # ThreeIndexes

\* C15 as stated: index creation called on its own reports a failure of its
\* requests to the caller as an error.
C15_StandaloneIndexFailureReported ==
    \A c \in Callers :
        (calls[c].op = "createIndexes" /\ calls[c].pc = "done"
         /\ calls[c].failed) => calls[c].res = "error"

\* The positional fields of d are v0..v(n-1) for some n >= 1.
HasLeadingFields(d) ==
    \E n \in 1..NumFields : DOMAIN d.v = 0..(n - 1)

\* The line of d as C16 states it: ptype and every present field, in order.
LineOfAllFields(d) ==
    d.ptype \o ", " \o
    Join([i \in 1..Cardinality(DOMAIN d.v) |-> d.v[i - 1]], ", ")

\* The lines of the documents S, in the order find() returns them.
LinesFor(S) == [i \in 1..Cardinality(S) |-> loadPolicyLine(InOrder(S)[i])]

\* C16 as stated: load all feeds one line per stored document, and the line
\* of a document with the fields v0..v(n-1) is its ptype followed by the
\* values of all these fields in order, an empty string included.
C16_LoadFeedsEveryField ==
    [][\A c \in Callers :
        (Resumes(c, "find") /\ calls[c].op = "loadPolicy") =>
            /\ Len(calls'[c].fed) = Cardinality(docs)
            /\ \A i \in 1..Cardinality(docs) :
                  HasLeadingFields(InOrder(docs)[i]) =>
                      calls'[c].fed[i] = LineOfAllFields(InOrder(docs)[i])]_vars

\* C17: load filtered feeds the lines of exactly the documents the filter
\* matches when this.useFilter, and of every document otherwise; load all
\* feeds the lines of every document in either mode.
C17_LoadFilteredByMode ==
    [][\A c \in Callers :
        LET cl == calls[c]
        IN  /\ (Resumes(c, "find") /\ cl.op = "loadFilteredPolicy") =>
                  calls'[c].fed =
                      LinesFor(IF cl.this.useFilter
                               THEN {d \in docs : Matches(d, cl.filter)}
                               ELSE docs)
            /\ (Resumes(c, "find") /\ cl.op = "loadPolicy") =>
                  calls'[c].fed = LinesFor(docs)]_vars

\* A load filtered in the mode without filtering has fed a document its
\* filter does not match.
C17_Witness ==
    \E c \in Callers :
        /\ calls[c].op = "loadFilteredPolicy" /\ calls[c].pc = "done"
        /\ calls[c].res = "ok" /\ ~calls[c].this.useFilter
        /\ calls[c].filter # <<>>
        /\ Len(calls[c].fed) = Cardinality(docs)
        /\ \E d \in docs : ~Matches(d, calls[c].filter)

\* C18 as stated: after a load filtered has completed, isFiltered() is true.
C18_LoadFilteredSetsFlag ==
    \A c \in Callers :
        (calls[c].op = "loadFilteredPolicy" /\ calls[c].pc = "done"
         /\ calls[c].res = "ok") => isFiltered(calls[c].this)

\* C19: when the collection exists, the clear of save all is a drop (the
\* collection and its indexes are gone) if and only if the adapter's
\* drop-on-save flag is set, and a delete-all (the collection and its indexes
\* stay) otherwise; when the collection does not exist it issues neither and
\* changes nothing.
C19_ClearDropsIffFlag ==
    [][\A c \in Callers :
        LET cl == calls[c]
        IN  (/\ cl.op = "savePolicy" /\ cl.pc = "clear"
             /\ calls'[c].pc # "clear" /\ calls'[c].res # "error") =>
                LET req == calls'[c].req
                IN  /\ req = "drop" <=> (exists /\ cl.drop)
                    /\ req = "deleteMany" <=> (exists /\ ~cl.drop)
                    /\ req = "none" <=> ~exists
                    /\ req = "drop" =>
                          ~exists' /\ docs' = {} /\ indexes' = {}
                    /\ req = "deleteMany" =>
                          exists' /\ docs' = {} /\ indexes' = indexes
                    /\ req = "none" =>
                          UNCHANGED <<docs, exists, indexes>>]_vars

\* A save all has found no collection (an earlier save all having dropped
\* it) and has issued neither request.
C19_Witness ==
    \E c \in Callers :
        /\ calls[c].op = "savePolicy" /\ calls[c].pc \in {"insertMany", "done"}
        /\ calls[c].res # "error" /\ "k" \in DOMAIN calls[c]
        /\ calls[c].req = "none" /\ calls[c].drop

\* C20 as stated: after a successful save all of an adapter with drop-on-save
\* the collection exists, with the three indexes.
C20_DropRecreatesWithIndexes ==
    \A c \in Callers :
        (calls[c].op = "savePolicy" /\ calls[c].pc = "done"
         /\ calls[c].res = "ok" /\ calls[c].drop) =>
            exists /\ indexes = ThreeIndexes

\* d and e have the same natural key: the same ptype and the same present
\* positional fields with the same values.
SameKey(d, e) == d.ptype = e.ptype /\ d.v = e.v

\* C21 as stated: the createdAt of a rule that stays stored never changes: a
\* step of the store leaves the createdAt of every document it keeps, and a
\* rule that a save all found stored and stores again has afterwards the
\* createdAt it had before.
C21_CreatedAtOfStoredRuleFixed ==
    [][/\ \A d \in docs, e \in docs' : d.id = e.id => e.createdAt = d.createdAt
       /\ \A c \in Callers :
            (calls[c].op = "savePolicy" /\ Resumes(c, "insertMany")) =>
                \A d \in calls[c].gone, e \in docs' :
                    SameKey(d, e) => e.createdAt = d.createdAt]_vars

\* The messages of the close failures of an adapter that has been opened.
OpenedCloseMessages ==
    {"Failed to close MongoDB connection: " \o e.message : e \in CloseErrors}

\* C22 as stated: a close that succeeds leaves the client closed; a close
\* that fails reaches the caller as the adapter's error, whose message is the
\* close context, ": " and the message of the client's error, which is its
\* cause; and the message of a failed close of an adapter that was never
\* opened is none of the messages a failed close of an opened adapter has.
C22_CloseNeverOpenedDistinct ==
    [][\A c \in Callers :
        /\ Resumes(c, "close") => client' = "closed"
        /\ Fails(c, "close") =>
              /\ calls'[c].err.kind = "MongoAdapterError"
              /\ calls'[c].err.cause \in CloseErrors
              /\ calls'[c].err.message =
                    "Failed to close MongoDB connection: "
                        \o calls'[c].err.cause.message
              /\ client' = client
        /\ (Fails(c, "close") /\ client = "created") =>
              calls'[c].err.message \notin OpenedCloseMessages]_vars

\* The ids of the documents S.
Ids(S) == {d.id : d \in S}

\* e is what update one(ptype, oldRule, newRule) at clock reading at makes of
\* d: the fields of the new rule are set, the fields of the old rule past
\* them are gone, the other fields and createdAt are those of d, and
\* updatedAt is the clock reading.
UpdatedFrom(d, e, ptype, oldRule, newRule, at) ==
    /\ e.ptype = ptype
    /\ \A i \in 0..(NumFields - 1) :
          IF i < Min(Len(newRule), NumFields)
          THEN i \in DOMAIN e.v /\ e.v[i] = newRule[i + 1]
          ELSE IF i < Min(Len(oldRule), NumFields)
               THEN i \notin DOMAIN e.v
               ELSE /\ i \in DOMAIN e.v <=> i \in DOMAIN d.v
                    /\ i \in DOMAIN d.v => e.v[i] = d.v[i]
    /\ e.createdAt = d.createdAt
    /\ e.updatedAt = at

\* C23: update one changes the collection in the one step in which the store
\* answers it: that step neither removes nor inserts a document, changes at
\* most one, and the document it changes has then all of the update (the new
\* fields, the fields of the old key past them unset, createdAt kept,
\* updatedAt the clock reading of the call); no other step, of this or of an
\* overlapping call, changes a stored document in place.
C23_UpdateIsOneAtomicStep ==
    [][/\ \A c \in Callers :
            (calls[c].op = "updatePolicy" /\ Resumes(c, "updateOne")) =>
                /\ Ids(docs') = Ids(docs)
                /\ Cardinality(docs \ docs') <= 1
                /\ \A d \in docs, e \in docs' :
                      (d.id = e.id /\ d # e) =>
                          UpdatedFrom(d, e, calls[c].ptype, calls[c].oldRule,
                                      calls[c].newRule, calls[c].at)
       /\ (~\E c \in Callers : Resumes(c, "updateOne")) =>
             \A d \in docs, e \in docs' : d.id = e.id => d = e]_vars

\* An update one to a shorter rule has changed a document while a call of
\* another caller was awaiting the store.
C23_Witness ==
    \E c \in Callers, r \in Callers :
        /\ calls[c].op = "updatePolicy" /\ calls[c].pc = "done"
        /\ calls[c].res = "ok" /\ calls[c].n = 1
        /\ Len(calls[c].newRule) < Len(calls[c].oldRule)
        /\ r # c /\ calls[r].pc \notin {"idle", "done"}

\* C24 as stated: no two stored documents have the same natural key.
C24_NaturalKeyUnique ==
    \A d \in docs, e \in docs : SameKey(d, e) => d = e

\* C25 as stated: the positional fields of every stored document are
\* v0..v(n-1) for some n: a document with vk has every vj, j < k.
C25_FieldsAreGapFreePrefix ==
    \A d \in docs : \A k \in DOMAIN d.v : \A j \in 0..(k - 1) : j \in DOMAIN d.v

\* The collections deleteOne(q) can make of the documents S.
DeleteOneIn(S, q) ==
    IF MatchingIn(S, q) = {} THEN {S} ELSE {S \ {d} : d \in MatchingIn(S, q)}

RECURSIVE InListOrder(_, _)
\* The collections the deletes of the queries qs can make of S when the store
\* executes them one after the other in the order of the list.
InListOrder(S, qs) ==
    IF Len(qs) = 0 THEN {S}
    ELSE UNION {InListOrder(T, Tail(qs)) : T \in DeleteOneIn(S, Head(qs))}

\* C26 as stated: whatever the order in which the store executes the deletes
\* of a remove many, the collection it ends in is one that executing them in
\* the order of the list ends in.
C26_RemoveManyOrderIndependent ==
    [][\A c \in Callers :
        Resumes(c, "awaitAll") =>
            docs' \in InListOrder(calls[c].before, calls[c].qs)]_vars

\* C27 as stated: when two adapters are opened at the same time on a
\* database without the collection, and the store fails nothing for a reason
\* of its own, no open fails.
C27_ConcurrentOpensSucceed ==
    \A c \in Callers :
        (calls[c].op = "newAdapter" /\ calls[c].pc = "done") =>
            calls[c].res = "ok"

\* d has the key of rule under ptype: the ptype, and the rule's fields (the
\* first NumFields of them) with the rule's values.
HasKey(d, ptype, rule) ==
    /\ d.ptype = ptype
    /\ \A i \in 1..Min(Len(rule), NumFields) :
          (i - 1) \in DOMAIN d.v /\ d.v[i - 1] = rule[i]

\* C28: when no stored document has the key of the old rule, the step that
\* ends update one changes no document and inserts none, and the call
\* completes with a modified count of 0, without error unless the store
\* itself rejected the request.
C28_UpdateWithoutMatchIsNoOp ==
    [][\A c \in Callers :
        LET cl == calls[c]
        IN  (/\ cl.op = "updatePolicy" /\ cl.pc = "updateOne"
             /\ calls'[c].pc = "done"
             /\ ~\E d \in docs : HasKey(d, cl.ptype, cl.oldRule)) =>
                /\ docs' = docs
                /\ UNCHANGED <<nextId, exists, indexes>>
                /\ IF calls'[c].res = "ok" THEN calls'[c].n = 0
                   ELSE calls'[c].err = StoreError]_vars

\* An update one has completed without error on a collection that holds
\* documents, none of them with the key of its old rule.
C28_Witness ==
    \E c \in Callers :
        /\ calls[c].op = "updatePolicy" /\ calls[c].pc = "done"
        /\ calls[c].res = "ok" /\ calls[c].n = 0
        /\ docs # {}
        /\ ~\E d \in docs : HasKey(d, calls[c].ptype, calls[c].oldRule)

\* The step is the store's answer to a request of a remove one, remove many,
\* remove filtered or update one called with rule type ptype, or a delete
\* still in flight of a remove many called with it.
RequestOfType(ptype) ==
    \/ \E c \in Callers :
          /\ calls[c].pc \in {"deleteOne", "awaitAll", "deleteMany", "updateOne"}
          /\ calls'[c] # calls[c]
          /\ calls[c].ptype = ptype
    \/ \E q \in BagToSet(detached) :
          /\ CopiesIn(q, detached') < CopiesIn(q, detached)
          /\ q.ptype = ptype

\* C29: a document that a step of remove one, remove many, remove filtered or
\* update one deletes or modifies has the rule type the operation was called
\* with, and a modified document keeps its rule type.
C29_OtherTypesUntouched ==
    [][/\ \A d \in docs \ docs' : RequestOfType(d.ptype)
       /\ \A d \in docs, e \in docs' : d.id = e.id => e.ptype = d.ptype]_vars

\* A remove filtered given the rule type only has deleted documents, and a
\* document of the other rule type is still stored.
C29_Witness ==
    \E c \in Callers :
        /\ calls[c].op = "removeFilteredPolicy" /\ calls[c].pc = "done"
        /\ calls[c].res = "ok" /\ calls[c].n >= 1
        /\ calls[c].fieldValues = <<>>
        /\ \E d \in docs : d.ptype # calls[c].ptype

\* C30 as stated: every stored document has createdAt <= updatedAt; a
\* document is inserted with createdAt = updatedAt, and a step that changes a
\* stored document leaves its createdAt.
C30_CreatedNotAfterUpdated ==
    [][/\ \A d \in docs' : d.createdAt <= d.updatedAt
       /\ \A e \in docs' : e.id \notin Ids(docs) => e.createdAt = e.updatedAt
       /\ \A d \in docs, e \in docs' :
             d.id = e.id => e.createdAt = d.createdAt]_vars

====
